---- MODULE Spec2Model ----
(***************************************************************************)
(* Preprocessor evaluation of lib/preprocessor/environment/standard.h.     *)
(*                                                                         *)
(* The file holds two headers one after the other: the REBOOT_ header      *)
(* (variant A, lines 11-436) and the AMPLIFY_ header (variant B, lines     *)
(* 450-673).  The state is the preprocessor's macro table while the file   *)
(* is read top to bottom; every conditional group of the file is one       *)
(* action.  The predefined macros of the translation environment are the   *)
(* inputs, drawn in Init.                                                  *)
(***************************************************************************)
EXTENDS Integers, Sequences, FiniteSets, TLC

VARIABLES
    env,          \* the predefined macros: name -> value, Undefined if absent
    guards,       \* the include guards defined so far
    flags,        \* the object-like macros with an empty replacement list
    constant,     \* the four version constants: name -> value
    history,      \* per constant, the values its successive #defines gave it
    diagnostics,  \* constraint violations met and text lines passed through
    pc,           \* the directive the preprocessor reads next
    includes      \* how many times the file has been included

vars == <<env, guards, flags, constant, history, diagnostics, pc, includes>>

----------------------------------------------------------------------------
(* Bounds of the model *)

\* input values lie within MaxDelta of a threshold the file compares against
MaxDelta == 1
\* the file is included at most MaxIncludes times in the translation unit
MaxIncludes == 2

----------------------------------------------------------------------------
(* Macro names *)

\* a macro that is not defined (#undef, or never #define'd)
Undefined == -1

REBOOT(s) == "REBOOT_PREPROCESSOR_ENVIRONMENT_STANDARD_" \o s
AMPLIFY(s) == "AMPLIFY_PREPROCESSOR_STANDARD_" \o s

REBOOT_NON_STANDARD_C == "REBOOT_PREPROCESSOR_ENVIRONMENT_NON_STANDARD_C"
REBOOT_GUARD == "__REBOOT_PREPROCESSOR_ENVIRONMENT_STANDARD_H__"
AMPLIFY_GUARD == "__AMPLIFY_PREPROCESSOR_ENVIRONMENT_STANDARD_H__"

REBOOT_C == REBOOT("C")
REBOOT_CPP == REBOOT("CPP")
AMPLIFY_C == AMPLIFY("C")
AMPLIFY_CPP == AMPLIFY("CPP")

ConstantNames == {REBOOT_C, REBOOT_CPP, AMPLIFY_C, AMPLIFY_CPP}

Defined(value) == value # Undefined

----------------------------------------------------------------------------
(* Inputs *)

\* the values __STDC_VERSION__ is compared against
StdcVersionThresholds == {199409, 199901, 201112, 201710}
\* the values __cplusplus is compared against (199707 in A, 199711 in B)
CplusplusThresholds == {199707, 199711, 201103, 201402, 201703}

Around(thresholds) ==
    {t + d : t \in thresholds, d \in (0 - MaxDelta) .. MaxDelta}

Environments ==
    [ STDC               : {Undefined, 0, 1},
      STDC_VERSION       : {Undefined} \cup Around(StdcVersionThresholds),
      STDC_HOSTED        : {Undefined, 1},
      cplusplus          : {Undefined} \cup Around(CplusplusThresholds),
      cplusplus_cli      : {Undefined, 1},
      cplusplus_winrt    : {Undefined, 1},
      embedded_cplusplus : {Undefined, 1} ]

Init ==
    /\ env \in Environments
    /\ guards = {}
    /\ flags = {}
    /\ constant = [n \in ConstantNames |-> Undefined]
    /\ history = [n \in ConstantNames |-> << >>]
    /\ diagnostics = {}
    /\ pc = "RebootGuard"
    /\ includes = 1

----------------------------------------------------------------------------
(* Directives *)

\* #if / #ifdef whose group is skipped, or a directive that only moves on
Skip(next) ==
    /\ pc' = next
    /\ UNCHANGED <<env, guards, flags, constant, history, diagnostics, includes>>

\* #define name value, after an #undef of it when undefFirst.  Without the
\* #undef, a macro already defined with another replacement list is a
\* constraint violation: the translator either diagnoses it and takes the
\* new definition, or rejects the translation unit.
Redefines(name, value, undefFirst) ==
    /\ ~undefFirst
    /\ Defined(constant[name])
    /\ constant[name] # value

DefineGroup(name, value, undefFirst, newFlags, next) ==
    \/ /\ constant' = [constant EXCEPT ![name] = value]
       /\ history' = [history EXCEPT ![name] = Append(@, value)]
       /\ flags' = flags \cup newFlags
       /\ diagnostics' = IF Redefines(name, value, undefFirst)
                           THEN diagnostics \cup {"redefined " \o name}
                           ELSE diagnostics
       /\ pc' = next
       /\ UNCHANGED <<env, guards, includes>>
    \/ /\ Redefines(name, value, undefFirst)
       /\ diagnostics' = diagnostics \cup {"redefined " \o name}
       /\ pc' = "rejected"
       /\ UNCHANGED <<env, guards, flags, constant, history, includes>>

\* #if cond / #undef name / #define name value / #define flag / #endif
LadderStep(cond, name, value, flag, next) ==
    IF cond THEN DefineGroup(name, value, TRUE, {flag}, next)
            ELSE Skip(next)

\* #ifdef signal / #define name value / #define flags / #endif
DialectBlock(signal, name, value, newFlags, next) ==
    IF Defined(signal) THEN DefineGroup(name, value, FALSE, newFlags, next)
                       ELSE Skip(next)

----------------------------------------------------------------------------
(* Variant A: the REBOOT_ header, lines 11-436 *)

\* RebootGuard without the #ifndef test: the header is read at every inclusion
RebootGuardMissing ==
    /\ pc = "RebootGuard"
    /\ guards' = guards \cup {REBOOT_GUARD}
    /\ pc' = "RebootStdc"
    /\ UNCHANGED <<env, flags, constant, history, diagnostics, includes>>

RebootGuard ==
    /\ pc = "RebootGuard"
    /\ IF REBOOT_GUARD \in guards
         THEN Skip("AmplifyGuard")
         ELSE /\ guards' = guards \cup {REBOOT_GUARD}
              /\ pc' = "RebootStdc"
              /\ UNCHANGED <<env, flags, constant, history, diagnostics, includes>>

\* RebootStdc with the __STDC_VERSION__ block after the #endif, as in variant B
RebootStdcVersionOutside ==
    /\ pc = "RebootStdc"
    /\ IF Defined(env.STDC)
         THEN /\ flags' = flags \cup {REBOOT("HAS_C"), REBOOT("HAS_C89")}
              /\ pc' = "RebootIsoC"
         ELSE /\ flags' = flags \cup {REBOOT_NON_STANDARD_C}
              /\ pc' = "RebootStdcVersion"
    /\ UNCHANGED <<env, guards, constant, history, diagnostics, includes>>

\* #ifdef __STDC__ ... #else #define ..._NON_STANDARD_C #endif
RebootStdc ==
    /\ pc = "RebootStdc"
    /\ IF Defined(env.STDC)
         THEN /\ flags' = flags \cup {REBOOT("HAS_C"), REBOOT("HAS_C89")}
              /\ pc' = "RebootIsoC"
         ELSE /\ flags' = flags \cup {REBOOT_NON_STANDARD_C}
              /\ pc' = "RebootCplusplus"
    /\ UNCHANGED <<env, guards, constant, history, diagnostics, includes>>

\* #if (__STDC__ == 1)
RebootIsoC ==
    /\ pc = "RebootIsoC"
    /\ flags' = IF env.STDC = 1 THEN flags \cup {REBOOT("HAS_ISO_C")} ELSE flags
    /\ pc' = "RebootStdcVersion"
    /\ UNCHANGED <<env, guards, constant, history, diagnostics, includes>>

\* RebootCBranch with the C99 group leaving out ..._HAS_AT_LEAST_C94
RebootCBranchGap(v) ==
    IF v >= 201710 THEN
        [ C     |-> 201710,
          flags |-> { REBOOT("HAS_C17"), REBOOT("HAS_C18"),
                      REBOOT("HAS_AT_LEAST_C11"), REBOOT("HAS_AT_LEAST_C99"),
                      REBOOT("HAS_AT_LEAST_C94"), REBOOT("HAS_AT_LEAST_C89") } ]
    ELSE IF v >= 201112 THEN
        [ C     |-> 201112,
          flags |-> { REBOOT("HAS_C11"),
                      REBOOT("HAS_AT_LEAST_C11"), REBOOT("HAS_AT_LEAST_C99"),
                      REBOOT("HAS_AT_LEAST_C94"), REBOOT("HAS_AT_LEAST_C89") } ]
    ELSE IF v >= 199901 THEN
        [ C     |-> 199901,
          flags |-> { REBOOT("HAS_C99"),
                      REBOOT("HAS_AT_LEAST_C99"), REBOOT("HAS_AT_LEAST_C89") } ]
    ELSE IF v >= 199409 THEN
        [ C     |-> 199409,
          flags |-> { REBOOT("HAS_C94"),
                      REBOOT("HAS_AT_LEAST_C94"), REBOOT("HAS_AT_LEAST_C89") } ]
    ELSE
        [ C     |-> 198912,
          flags |-> { REBOOT("HAS_C89"), REBOOT("HAS_AT_LEAST_C89") } ]

\* the #if / #elif / #else chain on __STDC_VERSION__: the group it selects
RebootCBranch(v) ==
    IF v >= 201710 THEN
        [ C     |-> 201710,
          flags |-> { REBOOT("HAS_C17"), REBOOT("HAS_C18"),
                      REBOOT("HAS_AT_LEAST_C11"), REBOOT("HAS_AT_LEAST_C99"),
                      REBOOT("HAS_AT_LEAST_C94"), REBOOT("HAS_AT_LEAST_C89") } ]
    ELSE IF v >= 201112 THEN
        [ C     |-> 201112,
          flags |-> { REBOOT("HAS_C11"),
                      REBOOT("HAS_AT_LEAST_C11"), REBOOT("HAS_AT_LEAST_C99"),
                      REBOOT("HAS_AT_LEAST_C94"), REBOOT("HAS_AT_LEAST_C89") } ]
    ELSE IF v >= 199901 THEN
        [ C     |-> 199901,
          flags |-> { REBOOT("HAS_C99"),
                      REBOOT("HAS_AT_LEAST_C99"),
                      REBOOT("HAS_AT_LEAST_C94"), REBOOT("HAS_AT_LEAST_C89") } ]
    ELSE IF v >= 199409 THEN
        [ C     |-> 199409,
          flags |-> { REBOOT("HAS_C94"),
                      REBOOT("HAS_AT_LEAST_C94"), REBOOT("HAS_AT_LEAST_C89") } ]
    ELSE
        [ C     |-> 198912,
          flags |-> { REBOOT("HAS_C89"), REBOOT("HAS_AT_LEAST_C89") } ]

\* #ifdef __STDC_VERSION__, nested in #ifdef __STDC__
RebootStdcVersion ==
    /\ pc = "RebootStdcVersion"
    /\ IF Defined(env.STDC_VERSION)
         THEN DefineGroup(REBOOT_C, RebootCBranch(env.STDC_VERSION).C, FALSE,
                          RebootCBranch(env.STDC_VERSION).flags,
                          "RebootCplusplus")
         ELSE Skip("RebootCplusplus")

\* #ifdef __cplusplus
RebootCplusplus ==
    /\ pc = "RebootCplusplus"
    /\ IF Defined(env.cplusplus) THEN Skip("RebootCpp98") ELSE Skip("RebootCli")

RebootCpp98 ==
    /\ pc = "RebootCpp98"
    /\ LadderStep(env.cplusplus >= 199707, REBOOT_CPP, 199711,
                  REBOOT("CPP98"), "RebootCpp11")

\* RebootCpp11 with the year-style value of the dialect blocks, 2011
RebootCpp11YearValue ==
    /\ pc = "RebootCpp11"
    /\ LadderStep(env.cplusplus >= 201103, REBOOT_CPP, 2011,
                  REBOOT("CPP11"), "RebootCpp14")

RebootCpp11 ==
    /\ pc = "RebootCpp11"
    /\ LadderStep(env.cplusplus >= 201103, REBOOT_CPP, 201103,
                  REBOOT("CPP11"), "RebootCpp14")

RebootCpp14 ==
    /\ pc = "RebootCpp14"
    /\ LadderStep(env.cplusplus >= 201402, REBOOT_CPP, 201402,
                  REBOOT("CPP14"), "RebootCpp17")

RebootCpp17 ==
    /\ pc = "RebootCpp17"
    /\ LadderStep(env.cplusplus >= 201703, REBOOT_CPP, 201703,
                  REBOOT("CPP17"), "RebootCli")

\* RebootCli with an #undef of the flags stronger than C++98
RebootCliUndefsStronger ==
    /\ pc = "RebootCli"
    /\ IF Defined(env.cplusplus_cli)
         THEN /\ constant' = [constant EXCEPT ![REBOOT_CPP] = 1998]
              /\ history' = [history EXCEPT ![REBOOT_CPP] = Append(@, 1998)]
              /\ flags' = (flags \ {REBOOT("CPP11"), REBOOT("CPP14"), REBOOT("CPP17")})
                            \cup {REBOOT("CPP98"), REBOOT("CPP_CLI")}
              /\ pc' = "RebootWinrt"
              /\ UNCHANGED <<env, guards, diagnostics, includes>>
         ELSE Skip("RebootWinrt")

RebootCli ==
    /\ pc = "RebootCli"
    /\ DialectBlock(env.cplusplus_cli, REBOOT_CPP, 1998,
                    {REBOOT("CPP98"), REBOOT("CPP_CLI")}, "RebootWinrt")

RebootWinrt ==
    /\ pc = "RebootWinrt"
    /\ DialectBlock(env.cplusplus_winrt, REBOOT_CPP, 2011,
                    {REBOOT("CPP11"), REBOOT("CPP_WCX")}, "RebootEmb")

\* RebootEmb defining the constant only when the ladder has left it undefined
RebootEmbKeepsConstant ==
    /\ pc = "RebootEmb"
    /\ IF Defined(env.embedded_cplusplus) /\ Defined(constant[REBOOT_CPP])
         THEN /\ flags' = flags \cup {REBOOT("CPP_EMB")}
              /\ pc' = "AmplifyGuard"
              /\ UNCHANGED <<env, guards, constant, history, diagnostics, includes>>
         ELSE DialectBlock(env.embedded_cplusplus, REBOOT_CPP, 0,
                           {REBOOT("CPP_EMB")}, "AmplifyGuard")

RebootEmb ==
    /\ pc = "RebootEmb"
    /\ DialectBlock(env.embedded_cplusplus, REBOOT_CPP, 0,
                    {REBOOT("CPP_EMB")}, "AmplifyGuard")

----------------------------------------------------------------------------
(* Variant B: the AMPLIFY_ header, lines 450-673 *)

AmplifyGuard ==
    /\ pc = "AmplifyGuard"
    /\ IF AMPLIFY_GUARD \in guards
         THEN Skip("done")
         ELSE /\ guards' = guards \cup {AMPLIFY_GUARD}
              /\ pc' = "AmplifyStdc"
              /\ UNCHANGED <<env, flags, constant, history, diagnostics, includes>>

\* AmplifyStdc with #ifndef for #ifdef
AmplifyStdcInverted ==
    /\ pc = "AmplifyStdc"
    /\ DialectBlock(IF Defined(env.STDC) THEN Undefined ELSE 1,
                    AMPLIFY_C, 1989, {AMPLIFY("C_1989")}, "AmplifyStdcVersion")

\* #ifdef __STDC__ / #define ..._C 1989 / #define ..._C_1989 / #endif
AmplifyStdc ==
    /\ pc = "AmplifyStdc"
    /\ DialectBlock(env.STDC, AMPLIFY_C, 1989, {AMPLIFY("C_1989")},
                    "AmplifyStdcVersion")

\* #ifdef __STDC_VERSION__, then "#if ! defined(..._C)".  The line after the
\* #if, "|| ! defined(..._C_1989)", follows a line that does not end in a
\* backslash: it is no part of the condition but a text line of the group,
\* passed through to the translator when the group is taken.
AmplifyStdcVersion ==
    /\ pc = "AmplifyStdcVersion"
    /\ IF ~Defined(env.STDC_VERSION) THEN Skip("AmplifyCplusplus")
       ELSE IF Defined(constant[AMPLIFY_C]) THEN Skip("AmplifyC1994")
       ELSE /\ constant' = [constant EXCEPT ![AMPLIFY_C] = 1994]
            /\ history' = [history EXCEPT ![AMPLIFY_C] = Append(@, 1994)]
            /\ flags' = flags \cup { AMPLIFY("C_1989"), AMPLIFY("C_1990"),
                                     AMPLIFY("C_1994") }
            /\ diagnostics' = diagnostics \cup {"text line 557"}
            /\ pc' = "AmplifyC1994"
            /\ UNCHANGED <<env, guards, includes>>

AmplifyC1994 ==
    /\ pc = "AmplifyC1994"
    /\ LadderStep(env.STDC_VERSION >= 199409, AMPLIFY_C, 1994,
                  AMPLIFY("C_1994"), "AmplifyC1999")

AmplifyC1999 ==
    /\ pc = "AmplifyC1999"
    /\ LadderStep(env.STDC_VERSION >= 199901 \/ Defined(env.STDC_HOSTED),
                  AMPLIFY_C, 1999, AMPLIFY("C_1999"), "AmplifyC2011")

\* AmplifyC2011 with > for >=
AmplifyC2011Strict ==
    /\ pc = "AmplifyC2011"
    /\ LadderStep(env.STDC_VERSION > 201112, AMPLIFY_C, 2011,
                  AMPLIFY("C_2011"), "AmplifyC2017")

AmplifyC2011 ==
    /\ pc = "AmplifyC2011"
    /\ LadderStep(env.STDC_VERSION >= 201112, AMPLIFY_C, 2011,
                  AMPLIFY("C_2011"), "AmplifyC2017")

AmplifyC2017 ==
    /\ pc = "AmplifyC2017"
    /\ LadderStep(env.STDC_VERSION >= 201710, AMPLIFY_C, 2017,
                  AMPLIFY("C_2017"), "AmplifyCplusplus")

\* #ifdef __cplusplus
AmplifyCplusplus ==
    /\ pc = "AmplifyCplusplus"
    /\ IF Defined(env.cplusplus) THEN Skip("AmplifyCpp1998")
                                 ELSE Skip("AmplifyCli")

\* AmplifyCpp1998 with variant A's threshold, 199707
AmplifyCpp1998HpThreshold ==
    /\ pc = "AmplifyCpp1998"
    /\ LadderStep(env.cplusplus >= 199707, AMPLIFY_CPP, 1998,
                  AMPLIFY("CPP_1998"), "AmplifyCpp2011")

AmplifyCpp1998 ==
    /\ pc = "AmplifyCpp1998"
    /\ LadderStep(env.cplusplus >= 199711, AMPLIFY_CPP, 1998,
                  AMPLIFY("CPP_1998"), "AmplifyCpp2011")

AmplifyCpp2011 ==
    /\ pc = "AmplifyCpp2011"
    /\ LadderStep(env.cplusplus >= 201103, AMPLIFY_CPP, 2011,
                  AMPLIFY("CPP_2011"), "AmplifyCpp2014")

AmplifyCpp2014 ==
    /\ pc = "AmplifyCpp2014"
    /\ LadderStep(env.cplusplus >= 201402, AMPLIFY_CPP, 2014,
                  AMPLIFY("CPP_2014"), "AmplifyCpp2017")

AmplifyCpp2017 ==
    /\ pc = "AmplifyCpp2017"
    /\ LadderStep(env.cplusplus >= 201703, AMPLIFY_CPP, 2017,
                  AMPLIFY("CPP_2017"), "AmplifyCli")

AmplifyCli ==
    /\ pc = "AmplifyCli"
    /\ DialectBlock(env.cplusplus_cli, AMPLIFY_CPP, 1998,
                    {AMPLIFY("CPP_1998"), AMPLIFY("CPP_CLI")}, "AmplifyEmb")

AmplifyEmb ==
    /\ pc = "AmplifyEmb"
    /\ DialectBlock(env.embedded_cplusplus, AMPLIFY_CPP, 0,
                    {AMPLIFY("CPP_EMB")}, "done")

----------------------------------------------------------------------------
(* The translation unit includes the file again: the macro table stays *)

Reinclude ==
    /\ pc = "done"
    /\ includes < MaxIncludes
    /\ includes' = includes + 1
    /\ pc' = "RebootGuard"
    /\ UNCHANGED <<env, guards, flags, constant, history, diagnostics>>

Next ==
    \/ RebootGuard
    \/ RebootStdc
    \/ RebootIsoC
    \/ RebootStdcVersion
    \/ RebootCplusplus
    \/ RebootCpp98
    \/ RebootCpp11
    \/ RebootCpp14
    \/ RebootCpp17
    \/ RebootCli
    \/ RebootWinrt
    \/ RebootEmb
    \/ AmplifyGuard
    \/ AmplifyStdc
    \/ AmplifyStdcVersion
    \/ AmplifyC1994
    \/ AmplifyC1999
    \/ AmplifyC2011
    \/ AmplifyC2017
    \/ AmplifyCplusplus
    \/ AmplifyCpp1998
    \/ AmplifyCpp2011
    \/ AmplifyCpp2014
    \/ AmplifyCpp2017
    \/ AmplifyCli
    \/ AmplifyEmb
    \/ Reinclude

Spec == Init /\ [][Next]_vars

\* the file has been read to its end
Done == pc = "done"

----------------------------------------------------------------------------
(* Properties *)

Absent(signals) == \A x \in signals : ~Defined(x)

\* the greatest element of a non-empty set of integers
Greatest(S) == CHOOSE t \in S : \A u \in S : u <= t

\* the value a ladder gives the constant for input v: the representative of
\* the greatest threshold <= v, and floor when v is below every threshold
Representative(ladder, v, floor) ==
    IF \E r \in ladder : r.threshold <= v
      THEN (CHOOSE r \in ladder :
              r.threshold = Greatest({q.threshold : q \in {x \in ladder : x.threshold <= v}})).value
      ELSE floor

\* the flags of a ladder are defined exactly for the thresholds <= v
FlagsExactly(ladder, v) ==
    \A r \in ladder : (r.flag \in flags) <=> (r.threshold <= v)

\* C1: variant A, for every __STDC__, __STDC_VERSION__ and __STDC_HOSTED__:
\* once the file is read, HAS_AT_LEAST_C11 defined implies HAS_AT_LEAST_C99
\* defined, which implies HAS_AT_LEAST_C94 defined, which implies
\* HAS_AT_LEAST_C89 defined.
C1_RebootAtLeastNoGap ==
    Done =>
      /\ REBOOT("HAS_AT_LEAST_C11") \in flags => REBOOT("HAS_AT_LEAST_C99") \in flags
      /\ REBOOT("HAS_AT_LEAST_C99") \in flags => REBOOT("HAS_AT_LEAST_C94") \in flags
      /\ REBOOT("HAS_AT_LEAST_C94") \in flags => REBOOT("HAS_AT_LEAST_C89") \in flags

C1_Witness ==
    /\ Done
    /\ env.STDC = 0
    /\ env.STDC_VERSION = 199901
    /\ Defined(env.STDC_HOSTED)
    /\ REBOOT("HAS_AT_LEAST_C99") \in flags
    /\ REBOOT("HAS_AT_LEAST_C94") \in flags
    /\ REBOOT("HAS_AT_LEAST_C11") \notin flags

\* C2: variant B, for every __STDC__, __STDC_VERSION__ (values below 199409
\* included) and __STDC_HOSTED__: once the file is read, C_2017 defined
\* implies C_2011 defined, which implies C_1999 defined, which implies C_1994
\* defined, which implies C_1989 defined.
C2_AmplifyNoGap ==
    Done =>
      /\ AMPLIFY("C_2017") \in flags => AMPLIFY("C_2011") \in flags
      /\ AMPLIFY("C_2011") \in flags => AMPLIFY("C_1999") \in flags
      /\ AMPLIFY("C_1999") \in flags => AMPLIFY("C_1994") \in flags
      /\ AMPLIFY("C_1994") \in flags => AMPLIFY("C_1989") \in flags

RebootCLadder ==
    { [threshold |-> 199409, value |-> 199409, flag |-> REBOOT("HAS_AT_LEAST_C94")],
      [threshold |-> 199901, value |-> 199901, flag |-> REBOOT("HAS_AT_LEAST_C99")],
      [threshold |-> 201112, value |-> 201112, flag |-> REBOOT("HAS_AT_LEAST_C11")],
      [threshold |-> 201710, value |-> 201710, flag |-> REBOOT("HAS_C17")] }

AmplifyCLadder ==
    { [threshold |-> 199409, value |-> 1994, flag |-> AMPLIFY("C_1994")],
      [threshold |-> 199901, value |-> 1999, flag |-> AMPLIFY("C_1999")],
      [threshold |-> 201112, value |-> 2011, flag |-> AMPLIFY("C_2011")],
      [threshold |-> 201710, value |-> 2017, flag |-> AMPLIFY("C_2017")] }

\* C3: both variants, __STDC__ defined, __STDC_HOSTED__ absent, __STDC_VERSION__
\* = v: once the file is read, the C constant is the representative value of
\* the greatest threshold among 199409, 199901, 201112, 201710 that is <= v
\* (the 1989 value when v < 199409), the flag of each of these thresholds is
\* defined exactly when the threshold is <= v, and the 1989 flag, which has no
\* threshold of its own, is defined for every v.
C3_CLadderExact ==
    (Done /\ Defined(env.STDC) /\ ~Defined(env.STDC_HOSTED) /\ Defined(env.STDC_VERSION)) =>
      /\ constant[REBOOT_C] = Representative(RebootCLadder, env.STDC_VERSION, 198912)
      /\ constant[AMPLIFY_C] = Representative(AmplifyCLadder, env.STDC_VERSION, 1989)
      /\ FlagsExactly(RebootCLadder, env.STDC_VERSION)
      /\ FlagsExactly(AmplifyCLadder, env.STDC_VERSION)
      /\ REBOOT("HAS_AT_LEAST_C89") \in flags
      /\ AMPLIFY("C_1989") \in flags

C3_Witness ==
    /\ Done
    /\ env.STDC = 1
    /\ ~Defined(env.STDC_HOSTED)
    /\ env.STDC_VERSION = 201112
    /\ constant[REBOOT_C] = 201112
    /\ constant[AMPLIFY_C] = 2011
    /\ AMPLIFY("C_2011") \in flags
    /\ AMPLIFY("C_2017") \notin flags

AllSignalsAbsent ==
    Absent({ env.STDC, env.STDC_VERSION, env.STDC_HOSTED, env.cplusplus,
             env.cplusplus_cli, env.cplusplus_winrt, env.embedded_cplusplus })

\* C4: when no input signal is defined, the translation unit is never
\* rejected and, once the file is read, none of the four version constants is
\* defined, no diagnostic has been raised, and no flag of either variant is
\* defined other than variant A's marker of the absence of __STDC__,
\* REBOOT_PREPROCESSOR_ENVIRONMENT_NON_STANDARD_C.
C4_NoSignalNoOutput ==
    AllSignalsAbsent =>
      /\ pc # "rejected"
      /\ Done =>
           /\ \A n \in ConstantNames : ~Defined(constant[n])
           /\ flags \subseteq {REBOOT_NON_STANDARD_C}
           /\ diagnostics = {}

C4_Witness ==
    /\ Done
    /\ AllSignalsAbsent
    /\ flags = {REBOOT_NON_STANDARD_C}
    /\ guards = {REBOOT_GUARD, AMPLIFY_GUARD}

\* the dialect signals each variant tests: variant B has no __cplusplus_winrt block
RebootDialectSignals == {env.cplusplus_cli, env.cplusplus_winrt, env.embedded_cplusplus}
AmplifyDialectSignals == {env.cplusplus_cli, env.embedded_cplusplus}

\* C5: taking the last #define as the effective value (the file is read to
\* its end), whenever a dialect signal the variant tests is defined, the C++
\* constant is fixed by the dialect blocks alone, whatever __cplusplus is: 0
\* if __embedded_cplusplus is defined, otherwise 2011 if __cplusplus_winrt is
\* defined (variant A only), otherwise 1998; and the marker of every present
\* dialect the variant tests (A: CPP_CLI, CPP_WCX, CPP_EMB; B: CPP_CLI,
\* CPP_EMB) is defined.
C5_DialectOverride ==
    Done =>
      /\ ~Absent(RebootDialectSignals) =>
           constant[REBOOT_CPP] =
             IF Defined(env.embedded_cplusplus) THEN 0
             ELSE IF Defined(env.cplusplus_winrt) THEN 2011
             ELSE 1998
      /\ ~Absent(AmplifyDialectSignals) =>
           constant[AMPLIFY_CPP] =
             IF Defined(env.embedded_cplusplus) THEN 0 ELSE 1998
      /\ Defined(env.cplusplus_cli) =>
           REBOOT("CPP_CLI") \in flags /\ AMPLIFY("CPP_CLI") \in flags
      /\ Defined(env.cplusplus_winrt) => REBOOT("CPP_WCX") \in flags
      /\ Defined(env.embedded_cplusplus) =>
           REBOOT("CPP_EMB") \in flags /\ AMPLIFY("CPP_EMB") \in flags

C5_Witness ==
    /\ Done
    /\ env.cplusplus = 201703
    /\ Defined(env.cplusplus_cli)
    /\ Defined(env.cplusplus_winrt)
    /\ Defined(env.embedded_cplusplus)
    /\ constant[REBOOT_CPP] = 0
    /\ constant[AMPLIFY_CPP] = 0
    /\ history[REBOOT_CPP] = <<199711, 201103, 201402, 201703, 1998, 2011, 0>>

RebootCppLadder ==
    { [threshold |-> 199707, value |-> 199711, flag |-> REBOOT("CPP98")],
      [threshold |-> 201103, value |-> 201103, flag |-> REBOOT("CPP11")],
      [threshold |-> 201402, value |-> 201402, flag |-> REBOOT("CPP14")],
      [threshold |-> 201703, value |-> 201703, flag |-> REBOOT("CPP17")] }

AmplifyCppLadder ==
    { [threshold |-> 199711, value |-> 1998, flag |-> AMPLIFY("CPP_1998")],
      [threshold |-> 201103, value |-> 2011, flag |-> AMPLIFY("CPP_2011")],
      [threshold |-> 201402, value |-> 2014, flag |-> AMPLIFY("CPP_2014")],
      [threshold |-> 201703, value |-> 2017, flag |-> AMPLIFY("CPP_2017")] }

DialectMarkers ==
    { REBOOT("CPP_CLI"), REBOOT("CPP_WCX"), REBOOT("CPP_EMB"),
      AMPLIFY("CPP_CLI"), AMPLIFY("CPP_EMB") }

\* C6: both variants, no dialect signal defined, __cplusplus = v: once the
\* file is read, the C++ constant is the representative value of the greatest
\* threshold <= v (A: 199707/201103/201402/201703 giving 199711/201103/
\* 201402/201703; B: 199711/201103/201402/201703 giving 1998/2011/2014/2017)
\* and is absent when v is below the lowest threshold, the ladder flags are
\* defined exactly for the thresholds <= v, and no dialect marker is defined.
C6_CppLadderExact ==
    (Done /\ Absent(RebootDialectSignals) /\ Defined(env.cplusplus)) =>
      /\ constant[REBOOT_CPP] = Representative(RebootCppLadder, env.cplusplus, Undefined)
      /\ constant[AMPLIFY_CPP] = Representative(AmplifyCppLadder, env.cplusplus, Undefined)
      /\ FlagsExactly(RebootCppLadder, env.cplusplus)
      /\ FlagsExactly(AmplifyCppLadder, env.cplusplus)
      /\ flags \cap DialectMarkers = {}

C6_Witness ==
    /\ Done
    /\ Absent(RebootDialectSignals)
    /\ env.cplusplus = 201103
    /\ constant[REBOOT_CPP] = 201103
    /\ constant[AMPLIFY_CPP] = 2011
    /\ REBOOT("CPP11") \in flags
    /\ REBOOT("CPP14") \notin flags

\* C7: variant B, __STDC_HOSTED__ defined and __STDC_VERSION__ not defined:
\* once the file is read, AMPLIFY_PREPROCESSOR_STANDARD_C is 1999 and
\* AMPLIFY_PREPROCESSOR_STANDARD_C_1999 is defined, with and without __STDC__.
C7_HostedImpliesC1999 ==
    (Done /\ Defined(env.STDC_HOSTED) /\ ~Defined(env.STDC_VERSION)) =>
      /\ constant[AMPLIFY_C] = 1999
      /\ AMPLIFY("C_1999") \in flags

\* C8: both variants, __STDC__ defined, __STDC_VERSION__ defined or not: once
\* the file is read, the C constant is defined with a value at least the
\* variant's C89 value (A: 198912, B: 1989) and the C89 flag is defined
\* (A: HAS_C89, B: C_1989).
C8_StdcInitialisesC89 ==
    (Done /\ Defined(env.STDC)) =>
      /\ Defined(constant[REBOOT_C]) /\ constant[REBOOT_C] >= 198912
      /\ REBOOT("HAS_C89") \in flags
      /\ Defined(constant[AMPLIFY_C]) /\ constant[AMPLIFY_C] >= 1989
      /\ AMPLIFY("C_1989") \in flags

NonDecreasing(seq) ==
    \A i \in 1 .. Len(seq) - 1 : seq[i] <= seq[i + 1]

\* C9 as stated: within an evaluation, for each constant, the successive
\* values its #defines give it, dialect override blocks included, form a
\* non-decreasing sequence, for every combination of input signals.
C9_ConstantNonDecreasing ==
    \A n \in ConstantNames : NonDecreasing(history[n])

\* the directives of the dialect override blocks
DialectBlocks == {"RebootCli", "RebootWinrt", "RebootEmb", "AmplifyCli", "AmplifyEmb"}

\* C9 as amended: every #define of a version constant made outside the
\* dialect override blocks (the C ladders and the C++ ladders of both
\* variants) gives the constant a value no lower than the value it had; only
\* a dialect override block lowers a constant.
C9_LadderNonDecreasing ==
    [][ pc \notin DialectBlocks =>
          \A n \in ConstantNames :
             (history'[n] # history[n] /\ history[n] # << >>) =>
                history[n][Len(history[n])] <= history'[n][Len(history'[n])] ]_vars

C9_Witness ==
    /\ pc = "AmplifyCli"
    /\ history[AMPLIFY_C] = <<1989, 1994, 1999, 2011, 2017>>
    /\ history[AMPLIFY_CPP] = <<1998, 2011, 2014, 2017>>
    /\ history[REBOOT_CPP] = <<199711, 201103, 201402, 201703, 1998>>

\* C10: variant B, for every __STDC__, __STDC_VERSION__ and __STDC_HOSTED__:
\* once the file is read, whenever AMPLIFY_PREPROCESSOR_STANDARD_C_1994 or a
\* stronger C flag is defined, AMPLIFY_PREPROCESSOR_STANDARD_C_1990 is defined.
C10_C1990InLadder ==
    Done =>
      ( flags \cap { AMPLIFY("C_1994"), AMPLIFY("C_1999"),
                     AMPLIFY("C_2011"), AMPLIFY("C_2017") } # {}
        => AMPLIFY("C_1990") \in flags )

\* C11: for every __cplusplus (absent or any value) and every combination of
\* __cplusplus_cli, __cplusplus_winrt, __embedded_cplusplus: once the file is
\* read, in each variant CPP17 defined implies CPP14 defined, which implies
\* CPP11 defined, which implies CPP98 defined (B: CPP_2017, CPP_2014,
\* CPP_2011, CPP_1998).
C11_CppNoGap ==
    Done =>
      /\ REBOOT("CPP17") \in flags => REBOOT("CPP14") \in flags
      /\ REBOOT("CPP14") \in flags => REBOOT("CPP11") \in flags
      /\ REBOOT("CPP11") \in flags => REBOOT("CPP98") \in flags
      /\ AMPLIFY("CPP_2017") \in flags => AMPLIFY("CPP_2014") \in flags
      /\ AMPLIFY("CPP_2014") \in flags => AMPLIFY("CPP_2011") \in flags
      /\ AMPLIFY("CPP_2011") \in flags => AMPLIFY("CPP_1998") \in flags

\* C12: evaluating the file again in the same translation unit, on the macro
\* table its first evaluation left, changes nothing: both include guards are
\* defined once the file is read, and from the second inclusion on no step
\* changes a constant, a flag, an include guard or the diagnostics, nor
\* #defines a constant again, so every inclusion ends in the constants and
\* flags of the first.
C12_Idempotent ==
    /\ [](Done => {REBOOT_GUARD, AMPLIFY_GUARD} \subseteq guards)
    /\ [][ includes' >= 2 =>
             /\ constant' = constant
             /\ flags' = flags
             /\ guards' = guards
             /\ history' = history
             /\ diagnostics' = diagnostics
             /\ pc' # "rejected" ]_vars

C12_Witness ==
    /\ Done
    /\ includes = 2
    /\ env.STDC = 1
    /\ env.STDC_VERSION = 199901
    /\ env.cplusplus = 201402
    /\ Defined(env.cplusplus_winrt)
    /\ history[REBOOT_CPP] = <<199711, 201103, 201402, 2011>>
    /\ history[AMPLIFY_C] = <<1989, 1994, 1999>>
    /\ constant[REBOOT_CPP] = 2011

\* C13: only the version constants are ever #undef'd: at every step of an
\* evaluation the set of defined flag macros contains the set defined before
\* the step.  So, once the file is read with __cplusplus >= 201703, the
\* CPP17, CPP14 and CPP11 flags of both variants are defined whatever the
\* dialect signals, while the C++ constant is 0 when __embedded_cplusplus is
\* defined and 1998 when __cplusplus_cli is defined and no later dialect block
\* of the variant is taken: with __cplusplus_cli or __embedded_cplusplus
\* defined the constant is lower than the strongest flag set.
C13_FlagsOnlyGrow ==
    /\ [][flags \subseteq flags']_vars
    /\ [](( Done /\ env.cplusplus >= 201703 ) =>
            /\ { REBOOT("CPP17"), REBOOT("CPP14"), REBOOT("CPP11"),
                 AMPLIFY("CPP_2017"), AMPLIFY("CPP_2014"), AMPLIFY("CPP_2011") }
                  \subseteq flags
            /\ Defined(env.embedded_cplusplus) =>
                 constant[REBOOT_CPP] = 0 /\ constant[AMPLIFY_CPP] = 0
            /\ ( Defined(env.cplusplus_cli)
                 /\ Absent({env.cplusplus_winrt, env.embedded_cplusplus}) ) =>
                 constant[REBOOT_CPP] = 1998
            /\ ( Defined(env.cplusplus_cli) /\ ~Defined(env.embedded_cplusplus) ) =>
                 constant[AMPLIFY_CPP] = 1998
            /\ ~Absent({env.cplusplus_cli, env.embedded_cplusplus}) =>
                 constant[REBOOT_CPP] < 201703 /\ constant[AMPLIFY_CPP] < 2017)

C13_Witness ==
    /\ Done
    /\ env.cplusplus = 201703
    /\ Defined(env.cplusplus_cli)
    /\ Absent({env.cplusplus_winrt, env.embedded_cplusplus})
    /\ REBOOT("CPP17") \in flags
    /\ AMPLIFY("CPP_2017") \in flags
    /\ constant[REBOOT_CPP] = 1998
    /\ constant[AMPLIFY_CPP] = 1998

\* the C flags of variant A other than the marker of the absence of __STDC__
RebootCFlags ==
    { REBOOT("HAS_C"), REBOOT("HAS_ISO_C"),
      REBOOT("HAS_C89"), REBOOT("HAS_C94"), REBOOT("HAS_C99"),
      REBOOT("HAS_C11"), REBOOT("HAS_C17"), REBOOT("HAS_C18"),
      REBOOT("HAS_AT_LEAST_C89"), REBOOT("HAS_AT_LEAST_C94"),
      REBOOT("HAS_AT_LEAST_C99"), REBOOT("HAS_AT_LEAST_C11") }

\* C14: variant A, once the file is read:
\* REBOOT_PREPROCESSOR_ENVIRONMENT_NON_STANDARD_C is defined exactly when
\* __STDC__ is not defined and ..._STANDARD_HAS_C exactly when it is; and when
\* __STDC__ is not defined, whatever __STDC_VERSION__ and __STDC_HOSTED__ are,
\* the ..._STANDARD_C constant and every HAS_ and HAS_AT_LEAST_ C flag are
\* undefined.
C14_NonStandardC ==
    Done =>
      /\ (REBOOT_NON_STANDARD_C \in flags) <=> ~Defined(env.STDC)
      /\ (REBOOT("HAS_C") \in flags) <=> Defined(env.STDC)
      /\ ~Defined(env.STDC) =>
           /\ ~Defined(constant[REBOOT_C])
           /\ flags \cap RebootCFlags = {}

C14_Witness ==
    /\ Done
    /\ ~Defined(env.STDC)
    /\ env.STDC_VERSION = 201710
    /\ Defined(env.STDC_HOSTED)
    /\ REBOOT_NON_STANDARD_C \in flags
    /\ constant[AMPLIFY_C] = 2017
    /\ ~Defined(constant[REBOOT_C])

====
